---- MODULE Spec2Model ----
(***************************************************************************)
(* A model of apputil.py: the Genius API wrapper.                          *)
(*                                                                         *)
(*   SpecResolve  get_artists (sequential) followed by get_artists_mp      *)
(*                (process pool) on the same input and the same API.       *)
(*   SpecCollect  collect_artist_names.                                    *)
(*                                                                         *)
(* Python strings are sequences of one-character strings, so that strip(), *)
(* str() and sorted() are computed rather than assumed.  Python None and   *)
(* optional values are <<>> and <<v>>.  A dict is a function whose domain  *)
(* is the set of keys present.                                             *)
(***************************************************************************)
EXTENDS Integers, Sequences, FiniteSets, TLC

\* ------------------------------------------------------------------ bounds
MaxTerms == 3
MaxBothTerms == 2
Workers == 2
MaxSeeds == 2
MaxPages == 2
MaxTarget == 2
MaxHits == 2

\* ----------------------------------------------------------- Python values
None == <<>>
Some(x) == <<x>>

EmptyDict == <<>>
DictGet(d, k) == IF k \in DOMAIN d THEN Some(d[k]) ELSE None

Str(s) == [tp |-> "str", s |-> s, n |-> 0]
PyNone == [tp |-> "NoneType", s |-> <<>>, n |-> 0]
PyInt(n) == [tp |-> "int", s |-> <<>>, n |-> n]
PyList(s) == [tp |-> "list", s |-> s, n |-> 0]

\* bool(v)
Truthy(v) ==
    CASE v.tp = "str" -> v.s # <<>>
      [] v.tp = "int" -> v.n # 0
      [] v.tp = "list" -> v.s # <<>>
      [] OTHER -> FALSE

IsStr(v) == v.tp = "str"

Whitespace == {" "}

RECURSIVE LStrip(_)
LStrip(s) ==
    IF s = <<>> THEN s
    ELSE IF Head(s) \in Whitespace THEN LStrip(Tail(s)) ELSE s

RECURSIVE RStrip(_)
RStrip(s) ==
    IF s = <<>> THEN s
    ELSE IF s[Len(s)] \in Whitespace THEN RStrip(SubSeq(s, 1, Len(s) - 1)) ELSE s

\* str.strip()
Strip(s) == RStrip(LStrip(s))

DigitChars == <<"0", "1", "2", "3", "4", "5", "6", "7", "8", "9">>

RECURSIVE IntStr(_)
IntStr(n) ==
    IF n < 10 THEN <<DigitChars[n + 1]>>
    ELSE IntStr(n \div 10) \o <<DigitChars[(n % 10) + 1]>>

\* str(v), for the values of the model (an empty list prints as "[]")
PyStr(v) ==
    CASE v.tp = "str" -> v.s
      [] v.tp = "int" -> IntStr(v.n)
      [] v.tp = "list" -> <<"[", "]">>
      [] OTHER -> <<"N", "o", "n", "e">>

\* ------------------------------------------------------------ the inputs
\* The values a caller may put in search_terms.
TermValues ==
    { Str(<<>>), Str(<<" ">>), Str(<<"a">>), Str(<<" ", "a">>), Str(<<"b">>),
      PyNone, PyInt(5), PyList(<<>>) }

RECURSIVE SeqsUpTo(_, _)
SeqsUpTo(S, n) ==
    IF n = 0 THEN {<<>>}
    ELSE LET shorter == SeqsUpTo(S, n - 1)
         IN  shorter \cup {Append(q, x) : q \in {r \in shorter : Len(r) = n - 1}, x \in S}

\* search_terms: the container type and its items
Containers == {"list", "tuple", "generator"}

\* The inputs on which get_artists and get_artists_mp are run side by side.
BothTermValues ==
    { Str(<<>>), Str(<<" ">>), Str(<<"a">>), Str(<<" ", "a">>), Str(<<"b">>), PyInt(5) }

BothContainers == {"list", "generator"}

\* ---------------------------------------------------------------- the API
\* A response of the session: status code and parsed JSON payload.  For
\* /search the payload is response.hits, each hit reduced to its
\* result.primary_artist dict; for /artists/<id> it is response.artist.
Response(status, body) == [status |-> status, body |-> body]

Primary(id, name) == ("id" :> id) @@ ("name" :> name)
PrimaryNoId(name) == ("name" :> name)

SearchResponses ==
    { Response(500, <<>>),
      Response(200, <<>>),
      Response(200, <<PrimaryNoId(<<"A">>)>>),
      Response(200, <<Primary(7, <<"A">>)>>) }

ArtistFull == ("id" :> 7) @@ ("name" :> <<"A">>) @@ ("followers_count" :> 100)
ArtistNoFollowers == ("id" :> 7) @@ ("name" :> <<"A">>)

ArtistResponses ==
    { Response(500, <<>>),
      Response(200, EmptyDict),
      Response(200, ArtistFull),
      Response(200, ArtistNoFollowers) }

\* Exceptions: the type and the message str(e) gives.
HTTPError(path, status) == [type |-> "HTTPError", msg |-> <<"GET", path, status>>]
ValueError(msg) == [type |-> "ValueError", msg |-> <<msg>>]
BrokenProcessPool == [type |-> "BrokenProcessPool", msg |-> <<"terminated">>]
NoExc == [type |-> "none", msg |-> <<>>]

ExcStr(e) == e.msg

VARIABLES
    search_terms,   \* the argument of get_artists / get_artists_mp
    workers,        \* the argument of get_artists_mp
    search_api,     \* the API's answer to /search, per query, once given
    artist_api,     \* the API's answer to /artists/<id>, per id, once given
    pc,             \* get_artists: position
    i,              \* get_artists: index of the current term
    artist_id,      \* get_artist: local
    artist,         \* get_artists: local
    rows,           \* get_artists: local
    requests,       \* the requests get_artists has issued, in order
    result,         \* what get_artists gave its caller
    mp_pc,          \* get_artists_mp: position
    terms,          \* get_artists_mp: local
    futures,        \* get_artists_mp: the submitted tasks
    mp_rows,        \* get_artists_mp: local
    mp_result,      \* what get_artists_mp gave its caller
    seeds_arg,      \* collect_artist_names: the argument seeds (None or an iterable)
    target,         \* collect_artist_names: argument
    max_pages,      \* collect_artist_names: argument
    out_txt,        \* collect_artist_names: argument (None or a path)
    c_pc,           \* collect_artist_names: position
    seeds,          \* collect_artist_names: the seeds iterated
    seed_i,         \* collect_artist_names: index of the current seed
    page,           \* collect_artist_names: the current page
    names,          \* collect_artist_names: the keys of the dict names, in insertion order
    out,            \* collect_artist_names: local
    c_result,       \* what collect_artist_names gave its caller
    file,           \* the text file save_list wrote, if any
    n_requests,     \* history: the search requests issued so far
    seed_requests,  \* history: the search requests issued for the current seed
    last_request,   \* history: the latest search request and how it ended
    observed,       \* history: len(names) as line 162 last read it
    seen            \* history: the primary-artist names of the hits of the pages fetched

api_vars == <<search_api, artist_api>>
seq_vars == <<pc, i, artist_id, artist, rows, requests, result>>
mp_vars == <<mp_pc, terms, futures, mp_rows, mp_result>>
col_vars == <<seeds_arg, target, max_pages, out_txt, c_pc, seeds, seed_i, page, names, out,
              c_result, file, n_requests, seed_requests, last_request, observed, seen>>
res_vars == <<search_terms, workers, api_vars, seq_vars, mp_vars>>
vars == <<res_vars, col_vars>>

\* What a call gave its caller: nothing yet, a DataFrame, or an exception.
Pending == [kind |-> "pending", rows |-> <<>>, exc |-> NoExc]
DataFrame(rs) == [kind |-> "DataFrame", rows |-> rs, exc |-> NoExc]
Raised(e) == [kind |-> "raised", rows |-> <<>>, exc |-> e]

\* _get: the session answers; the answer to a request already made is repeated.
Answers(memo, key, choices) ==
    IF key \in DOMAIN memo THEN {memo[key]} ELSE choices

Remember(memo, key, r) == (key :> r) @@ memo

\* Mutant: the status check of line 49 is missing.
GetNeverRaises(r) == FALSE

\* _get, lines 49-55: a non-200 status raises
GetRaises(r) == r.status # 200

\* Mutant: the isinstance test of line 70 is missing.
InvalidOnlyFalsy(search_term) == ~Truthy(search_term)

\* get_artist, line 70
Invalid(search_term) == ~Truthy(search_term) \/ ~IsStr(search_term)

\* Mutant: the test of line 84 is missing, the detail request is made anyway.
AfterSearchNoIdTest(r) ==
    IF GetRaises(r)
    THEN [next |-> "raise", exc |-> HTTPError("/search", r.status), artist_id |-> None, artist |-> EmptyDict]
    ELSE IF r.body = <<>>
         THEN [next |-> "return", exc |-> NoExc, artist_id |-> None, artist |-> EmptyDict]
         ELSE [next |-> "detail", exc |-> NoExc,
               artist_id |-> IF "id" \in DOMAIN r.body[1] THEN Some(r.body[1]["id"]) ELSE Some(7),
               artist |-> EmptyDict]

\* get_artist, lines 74-85, after the search response r arrived
AfterSearch(r) ==
    IF GetRaises(r)
    THEN [next |-> "raise", exc |-> HTTPError("/search", r.status), artist_id |-> None, artist |-> EmptyDict]
    ELSE LET hits == r.body
         IN  IF hits = <<>>
             THEN [next |-> "return", exc |-> NoExc, artist_id |-> None, artist |-> EmptyDict]
             ELSE LET id == DictGet(hits[1], "id")
                  IN  IF id = None \/ id = Some(0)
                      THEN [next |-> "return", exc |-> NoExc, artist_id |-> None, artist |-> EmptyDict]
                      ELSE [next |-> "detail", exc |-> NoExc, artist_id |-> id, artist |-> EmptyDict]

\* get_artist, lines 88-92, after the detail response r arrived
AfterDetail(r) ==
    IF GetRaises(r)
    THEN [next |-> "raise", exc |-> HTTPError("/artists", r.status), artist_id |-> None, artist |-> EmptyDict]
    ELSE [next |-> "return", exc |-> NoExc, artist_id |-> None, artist |-> r.body]

\* The row dict of lines 107-113 and 208-213
Row(term, a) ==
    ("search_term" :> Some(term)) @@ ("artist_name" :> DictGet(a, "name"))
    @@ ("artist_id" :> DictGet(a, "id")) @@ ("followers_count" :> DictGet(a, "followers_count"))

\* The row dict of lines 215-221
ErrorRow(term, e) ==
    ("search_term" :> Some(term)) @@ ("artist_name" :> None)
    @@ ("artist_id" :> None) @@ ("followers_count" :> None) @@ ("_error" :> Some(ExcStr(e)))

\* The row dict of line 188
LostRow(e) ==
    ("search_term" :> None) @@ ("artist_name" :> None)
    @@ ("artist_id" :> None) @@ ("followers_count" :> None) @@ ("_error" :> Some(ExcStr(e)))

\* ------------------------------------------------------------ get_artists
\* collect_artist_names is not called
ColIdle ==
    /\ seeds_arg = None
    /\ target = 0
    /\ max_pages = 0
    /\ out_txt = None
    /\ c_pc = "idle"
    /\ seeds = <<>>
    /\ seed_i = 0
    /\ page = 0
    /\ names = <<>>
    /\ out = <<>>
    /\ c_result = [kind |-> "pending", list |-> <<>>]
    /\ file = None
    /\ n_requests = 0
    /\ seed_requests = 0
    /\ last_request = None
    /\ observed = None
    /\ seen = {}

InitWith(containers, values, n) ==
    /\ ColIdle
    /\ \E c \in containers, items \in SeqsUpTo(values, n) :
          search_terms = [type |-> c, items |-> items]
    /\ workers = Workers
    /\ search_api = <<>>
    /\ artist_api = <<>>
    /\ pc = "enter"
    /\ i = 0
    /\ artist_id = None
    /\ artist = EmptyDict
    /\ rows = <<>>
    /\ requests = <<>>
    /\ result = Pending
    /\ mp_pc = "idle"
    /\ terms = <<>>
    /\ futures = <<>>
    /\ mp_rows = <<>>
    /\ mp_result = Pending

InitSeq == InitWith(Containers, TermValues, MaxTerms)

InitResolve == InitWith(BothContainers, BothTermValues, MaxBothTerms)

\* lines 100-103
IsSequence(st) == st.type \in {"list", "tuple"}

Enter ==
    /\ pc = "enter"
    /\ IF ~IsSequence(search_terms)
       THEN /\ result' = Raised(ValueError("search_terms must be a list/tuple of strings"))
            /\ pc' = "done"
            /\ UNCHANGED i
       ELSE /\ pc' = "for"
            /\ i' = 1
            /\ UNCHANGED result
    /\ rows' = <<>>
    /\ UNCHANGED <<col_vars, search_terms, workers, api_vars, artist_id, artist, requests, mp_vars>>

\* line 104 exhausted, line 118
Return ==
    /\ pc = "for"
    /\ i > Len(search_terms.items)
    /\ result' = DataFrame(rows)
    /\ pc' = "done"
    /\ UNCHANGED <<col_vars, search_terms, workers, api_vars, i, artist_id, artist, rows, requests, mp_vars>>

\* line 104 next term, line 105 calling get_artist, lines 70-71
Call ==
    /\ pc = "for"
    /\ i <= Len(search_terms.items)
    /\ IF Invalid(search_terms.items[i])
       THEN /\ result' = Raised(ValueError("search_term must be a non-empty string"))
            /\ pc' = "done"
       ELSE /\ pc' = "search"
            /\ UNCHANGED result
    /\ UNCHANGED <<col_vars, search_terms, workers, api_vars, i, artist_id, artist, rows, requests, mp_vars>>

\* lines 74-85
Search ==
    /\ pc = "search"
    /\ LET q == search_terms.items[i].s
       IN  \E r \in Answers(search_api, q, SearchResponses) :
              LET a == AfterSearch(r)
              IN  /\ search_api' = Remember(search_api, q, r)
                  /\ requests' = Append(requests, [term |-> i, path |-> "/search", status |-> r.status])
                  /\ artist_id' = a.artist_id
                  /\ artist' = a.artist
                  /\ pc' = IF a.next = "raise" THEN "done"
                           ELSE IF a.next = "return" THEN "append" ELSE "detail"
                  /\ result' = IF a.next = "raise" THEN Raised(a.exc) ELSE result
    /\ UNCHANGED <<col_vars, search_terms, workers, artist_api, i, rows, mp_vars>>

\* lines 88-92
Detail ==
    /\ pc = "detail"
    /\ \E r \in Answers(artist_api, artist_id[1], ArtistResponses) :
          LET a == AfterDetail(r)
          IN  /\ artist_api' = Remember(artist_api, artist_id[1], r)
              /\ requests' = Append(requests, [term |-> i, path |-> "/artists", status |-> r.status])
              /\ artist' = a.artist
              /\ pc' = IF a.next = "raise" THEN "done" ELSE "append"
              /\ result' = IF a.next = "raise" THEN Raised(a.exc) ELSE result
    /\ artist_id' = None
    /\ UNCHANGED <<col_vars, search_terms, workers, search_api, i, rows, mp_vars>>

\* Mutant: the row is put in front of the rows instead of after them.
AppendRowInFront ==
    /\ pc = "append"
    /\ rows' = <<Row(search_terms.items[i], artist)>> \o rows
    /\ i' = i + 1
    /\ artist' = EmptyDict
    /\ pc' = "for"
    /\ UNCHANGED <<col_vars, search_terms, workers, api_vars, artist_id, requests, result, mp_vars>>

\* lines 106-116
AppendRow ==
    /\ pc = "append"
    /\ rows' = Append(rows, Row(search_terms.items[i], artist))
    /\ i' = i + 1
    /\ artist' = EmptyDict
    /\ pc' = "for"
    /\ UNCHANGED <<col_vars, search_terms, workers, api_vars, artist_id, requests, result, mp_vars>>

\* --------------------------------------------------------- get_artists_mp
\* line 171: [str(t).strip() for t in search_terms if str(t).strip()]
RECURSIVE StripTerms(_)
StripTerms(items) ==
    IF items = <<>> THEN <<>>
    ELSE LET t == Strip(PyStr(Head(items)))
         IN  IF t # <<>> THEN <<Str(t)>> \o StripTerms(Tail(items))
             ELSE StripTerms(Tail(items))

\* A future: waiting in the pool's queue, running _mp_fetch_one (at its search or
\* its detail request), finished with a result, broken with an exception, and
\* at last taken by as_completed.
Future(st, id, res, exc) == [st |-> st, artist_id |-> id, res |-> res, exc |-> exc]

Running(f) == f.st \in {"search", "detail"}
Unfinished(f) == f.st \in {"pending", "search", "detail"}

\* lines 171-181
MpStart ==
    /\ pc = "done"
    /\ mp_pc = "idle"
    /\ terms' = StripTerms(search_terms.items)
    /\ mp_rows' = <<>>
    /\ IF terms' = <<>>
       THEN /\ mp_result' = DataFrame(mp_rows')
            /\ mp_pc' = "done"
            /\ UNCHANGED futures
       ELSE /\ futures' = [k \in 1..Len(terms') |-> Future("pending", None, EmptyDict, NoExc)]
            /\ mp_pc' = "as_completed"
            /\ UNCHANGED mp_result
    /\ UNCHANGED <<col_vars, search_terms, workers, api_vars, seq_vars>>

\* A worker takes the next queued task: _mp_fetch_one lines 205-207, get_artist 70-71
TaskStart(k) ==
    /\ mp_pc = "as_completed"
    /\ futures[k].st = "pending"
    /\ \A j \in 1..(k - 1) : futures[j].st # "pending"
    /\ Cardinality({j \in DOMAIN futures : Running(futures[j])}) < workers
    /\ futures' = [futures EXCEPT ![k] =
          IF Invalid(terms[k])
          THEN Future("finished", None,
                      ErrorRow(terms[k], ValueError("search_term must be a non-empty string")), NoExc)
          ELSE Future("search", None, EmptyDict, NoExc)]
    /\ UNCHANGED <<col_vars, search_terms, workers, api_vars, seq_vars, mp_pc, terms, mp_rows, mp_result>>

\* Mutant: _mp_fetch_one has no try/except, the exception reaches the future.
TaskSearchUncaught(k) ==
    /\ mp_pc = "as_completed"
    /\ futures[k].st = "search"
    /\ LET q == terms[k].s
       IN  \E r \in Answers(search_api, q, SearchResponses) :
              LET a == AfterSearch(r)
              IN  /\ search_api' = Remember(search_api, q, r)
                  /\ futures' = [futures EXCEPT ![k] =
                        IF a.next = "raise"
                        THEN Future("broken", None, EmptyDict, a.exc)
                        ELSE IF a.next = "return"
                        THEN Future("finished", None, Row(terms[k], a.artist), NoExc)
                        ELSE Future("detail", a.artist_id, EmptyDict, NoExc)]
    /\ UNCHANGED <<col_vars, search_terms, workers, artist_api, seq_vars, mp_pc, terms, mp_rows, mp_result>>

\* _mp_fetch_one around get_artist lines 74-85
TaskSearch(k) ==
    /\ mp_pc = "as_completed"
    /\ futures[k].st = "search"
    /\ LET q == terms[k].s
       IN  \E r \in Answers(search_api, q, SearchResponses) :
              LET a == AfterSearch(r)
              IN  /\ search_api' = Remember(search_api, q, r)
                  /\ futures' = [futures EXCEPT ![k] =
                        IF a.next = "raise"
                        THEN Future("finished", None, ErrorRow(terms[k], a.exc), NoExc)
                        ELSE IF a.next = "return"
                        THEN Future("finished", None, Row(terms[k], a.artist), NoExc)
                        ELSE Future("detail", a.artist_id, EmptyDict, NoExc)]
    /\ UNCHANGED <<col_vars, search_terms, workers, artist_api, seq_vars, mp_pc, terms, mp_rows, mp_result>>

\* _mp_fetch_one around get_artist lines 88-92
TaskDetail(k) ==
    /\ mp_pc = "as_completed"
    /\ futures[k].st = "detail"
    /\ \E r \in Answers(artist_api, futures[k].artist_id[1], ArtistResponses) :
          LET a == AfterDetail(r)
          IN  /\ artist_api' = Remember(artist_api, futures[k].artist_id[1], r)
              /\ futures' = [futures EXCEPT ![k] =
                    IF a.next = "raise"
                    THEN Future("finished", None, ErrorRow(terms[k], a.exc), NoExc)
                    ELSE Future("finished", None, Row(terms[k], a.artist), NoExc)]
    /\ UNCHANGED <<col_vars, search_terms, workers, search_api, seq_vars, mp_pc, terms, mp_rows, mp_result>>

\* A worker process dies while it runs a task: the pool is broken, and every
\* future that has no result yet ends with BrokenProcessPool.
PoolBreak ==
    /\ mp_pc = "as_completed"
    /\ \E k \in DOMAIN futures : Running(futures[k])
    /\ futures' = [k \in DOMAIN futures |->
          IF Unfinished(futures[k])
          THEN Future("broken", None, EmptyDict, BrokenProcessPool)
          ELSE futures[k]]
    /\ UNCHANGED <<col_vars, search_terms, workers, api_vars, seq_vars, mp_pc, terms, mp_rows, mp_result>>

\* Mutant: line 185 tests the artist found instead of the row.
CollectResultIfFound(k) ==
    /\ mp_pc = "as_completed"
    /\ futures[k].st = "finished"
    /\ mp_rows' = IF futures[k].res["artist_id"] # None THEN Append(mp_rows, futures[k].res) ELSE mp_rows
    /\ futures' = [futures EXCEPT ![k].st = "collected"]
    /\ UNCHANGED <<col_vars, search_terms, workers, api_vars, seq_vars, mp_pc, terms, mp_result>>

\* lines 182-186: as_completed yields a finished future, its result is a row
CollectResult(k) ==
    /\ mp_pc = "as_completed"
    /\ futures[k].st = "finished"
    /\ mp_rows' = IF futures[k].res # EmptyDict THEN Append(mp_rows, futures[k].res) ELSE mp_rows
    /\ futures' = [futures EXCEPT ![k].st = "collected"]
    /\ UNCHANGED <<col_vars, search_terms, workers, api_vars, seq_vars, mp_pc, terms, mp_result>>

\* lines 182-184, 187-188: as_completed yields a future whose result() raises
CollectException(k) ==
    /\ mp_pc = "as_completed"
    /\ futures[k].st = "broken"
    /\ mp_rows' = Append(mp_rows, LostRow(futures[k].exc))
    /\ futures' = [futures EXCEPT ![k].st = "collected"]
    /\ UNCHANGED <<col_vars, search_terms, workers, api_vars, seq_vars, mp_pc, terms, mp_result>>

\* line 190
MpReturn ==
    /\ mp_pc = "as_completed"
    /\ \A k \in DOMAIN futures : futures[k].st = "collected"
    /\ mp_result' = DataFrame(mp_rows)
    /\ mp_pc' = "done"
    /\ UNCHANGED <<col_vars, search_terms, workers, api_vars, seq_vars, terms, futures, mp_rows>>

NextResolve ==
    \/ Enter
    \/ Return
    \/ Call
    \/ Search
    \/ Detail
    \/ AppendRow
    \/ MpStart
    \/ \E k \in DOMAIN futures : TaskStart(k)
    \/ \E k \in DOMAIN futures : TaskSearch(k)
    \/ \E k \in DOMAIN futures : TaskDetail(k)
    \/ PoolBreak
    \/ \E k \in DOMAIN futures : CollectResult(k)
    \/ \E k \in DOMAIN futures : CollectException(k)
    \/ MpReturn

NextSeq ==
    \/ Enter
    \/ Return
    \/ Call
    \/ Search
    \/ Detail
    \/ AppendRow

SpecSeq == InitSeq /\ [][NextSeq]_vars

SpecResolve == InitResolve /\ [][NextResolve]_vars

\* ------------------------------------------------- claims on the resolvers
Items == search_terms.items

NonEmptyString(v) == IsStr(v) /\ v.s # <<>>

\* blank: empty or whitespace only
BlankString(v) == IsStr(v) /\ Strip(v.s) = <<>>

NoTransportError == \A k \in DOMAIN requests : requests[k].status = 200

NullFields(row) ==
    /\ row["artist_name"] = None
    /\ row["artist_id"] = None
    /\ row["followers_count"] = None

\* One row per input term, row k carrying term k
RowPerTerm ==
    /\ result.kind = "DataFrame"
    /\ Len(result.rows) = Len(Items)
    /\ \A k \in DOMAIN Items : result.rows[k]["search_term"] = Some(Items[k])

\* C1, as stated: whenever get_artists is given a list or a tuple and no API call
\* fails with a transport error, it returns a table with one row per input term,
\* row k having search_term equal to the k-th term.
C1_AsStated ==
    (/\ pc = "done"
     /\ IsSequence(search_terms)
     /\ \A k \in DOMAIN Items : IsStr(Items[k])
     /\ NoTransportError) => RowPerTerm

\* C1, amended: the same, for a list or tuple whose terms are all non-empty strings.
C1_RowPerTerm ==
    (/\ pc = "done"
     /\ IsSequence(search_terms)
     /\ \A k \in DOMAIN Items : NonEmptyString(Items[k])
     /\ NoTransportError) => RowPerTerm

C1_Witness ==
    /\ pc = "done"
    /\ RowPerTerm
    /\ Len(result.rows) >= 3
    /\ result.rows[1]["search_term"] # result.rows[2]["search_term"]
    /\ result.rows[3]["artist_id"] # result.rows[2]["artist_id"]

\* C3: in get_artists a transport error aborts the batch: the error goes to the
\* caller unchanged, no request follows the failing one, and no table is given,
\* the rows already built included.
C3_TransportErrorAborts ==
    \A k \in DOMAIN requests :
        requests[k].status # 200 =>
            /\ k = Len(requests)
            /\ requests[k].term = i
            /\ pc = "done"
            /\ result = Raised(HTTPError(requests[k].path, requests[k].status))
            /\ result.kind # "DataFrame"
            /\ result.rows = <<>>

C3_Witness ==
    /\ pc = "done"
    /\ result.kind = "raised"
    /\ result.exc.type = "HTTPError"
    /\ Len(rows) = 1
    /\ i = 2
    /\ Len(Items) = 3
    /\ NonEmptyString(Items[3])

\* A search response that is a resolution miss: no hits, or a first hit without
\* a primary-artist id
Miss(r) == r.status = 200 /\ (r.body = <<>> \/ "id" \notin DOMAIN r.body[1])

NoDetailRequest(k) ==
    \A j \in DOMAIN requests : requests[j].term = k => requests[j].path = "/search"

\* C7: a resolution miss is an empty record, not an error: get_artist returns {}
\* without a detail request, and the row of that query has null artist_name,
\* artist_id and followers_count.
C7_MissIsEmpty ==
    /\ \A k \in DOMAIN rows :
          Miss(search_api[Items[k].s]) => NullFields(rows[k]) /\ NoDetailRequest(k)
    /\ \A k \in DOMAIN Items :
          (/\ k = i
           /\ \E j \in DOMAIN requests : requests[j].term = k
           /\ Miss(search_api[Items[k].s]))
          => pc = "append" /\ artist = EmptyDict /\ NoDetailRequest(k) /\ result.kind = "pending"

C7_Witness ==
    /\ pc = "done"
    /\ result.kind = "DataFrame"
    /\ \E k1, k2 \in DOMAIN result.rows :
          /\ search_api[Items[k1].s] = Response(200, <<>>)
          /\ search_api[Items[k2].s].body # <<>>
          /\ Miss(search_api[Items[k2].s])
          /\ NullFields(result.rows[k1])
          /\ NullFields(result.rows[k2])

\* get_artist was called with term k
Called(k) == pc # "enter" /\ (k < i \/ (k = i /\ pc # "for"))

Rejected(k) ==
    /\ pc = "done"
    /\ i = k
    /\ result.kind = "raised"
    /\ result.exc.type = "ValueError"
    /\ \A j \in DOMAIN requests : requests[j].term # k

\* C8, as stated: get_artist signals a validation error for every blank (empty or
\* whitespace-only) or non-string input, before any request.
C8_AsStated ==
    \A k \in DOMAIN Items :
        (Called(k) /\ (BlankString(Items[k]) \/ ~IsStr(Items[k]))) => Rejected(k)

\* C8, amended: get_artist signals a validation error, before any request, exactly
\* for the inputs that are not a non-empty string (the empty string, None, a
\* number, a list); a whitespace-only string is accepted and searched for; a
\* search request is issued only for a non-empty string.
C8_Validation ==
    /\ \A k \in DOMAIN Items :
          Called(k) => (Rejected(k) <=> ~NonEmptyString(Items[k]))
    /\ \A j \in DOMAIN requests : NonEmptyString(Items[requests[j].term])

C8_Witness ==
    /\ Rejected(3)
    /\ ~IsStr(Items[3])
    /\ BlankString(Items[1])
    /\ \E j \in DOMAIN requests : requests[j].term = 1

\* ----- get_artists_mp
Count(seq, x) == Cardinality({j \in DOMAIN seq : seq[j] = x})

Range(seq) == {seq[j] : j \in DOMAIN seq}

SameBag(s1, s2) ==
    /\ Len(s1) = Len(s2)
    /\ \A x \in Range(s1) \cup Range(s2) : Count(s1, x) = Count(s2, x)

SubBag(s1, s2) == \A x \in Range(s1) : Count(s1, x) <= Count(s2, x)

ErrorTagged(row) == "_error" \in DOMAIN row

RECURSIVE NotErrorTagged(_)
NotErrorTagged(seq) ==
    IF seq = <<>> THEN <<>>
    ELSE IF ErrorTagged(Head(seq)) THEN NotErrorTagged(Tail(seq))
         ELSE <<Head(seq)>> \o NotErrorTagged(Tail(seq))

NonBlank(v) == Strip(PyStr(v)) # <<>>

\* The future is done, and not because the pool broke under it: its task ran
RanToEnd(k) ==
    /\ futures[k].st \in {"finished", "broken", "collected"}
    /\ futures[k].exc # BrokenProcessPool

\* The API failed the resolution of query q
ResolutionFailed(q) ==
    \/ search_api[q].status # 200
    \/ /\ ~Miss(search_api[q])
       /\ artist_api[search_api[q].body[1]["id"]].status # 200

\* The row of query q when nothing fails
GoodRow(q) ==
    LET a == IF Miss(search_api[q]) THEN EmptyDict
             ELSE artist_api[search_api[q].body[1]["id"]].body
    IN  [search_term |-> Some(Str(q)),
         artist_name |-> IF "name" \in DOMAIN a THEN Some(a["name"]) ELSE None,
         artist_id |-> IF "id" \in DOMAIN a THEN Some(a["id"]) ELSE None,
         followers_count |-> IF "followers_count" \in DOMAIN a THEN Some(a["followers_count"]) ELSE None]

\* C2: in get_artists_mp every non-blank term is an independent task; a task whose
\* resolution fails yields a row with its term, null fields and a populated
\* _error instead of aborting; whatever tasks fail, the table has one row per
\* non-blank term and the rows of the other terms are what they are without
\* any failure.
C2_FailureIsolated ==
    /\ mp_result.kind # "raised"
    /\ mp_pc # "idle" =>
          Len(terms) = Cardinality({k \in DOMAIN Items : NonBlank(Items[k])})
    /\ \A k \in DOMAIN futures :
          RanToEnd(k) =>
             IF ResolutionFailed(terms[k].s)
             THEN /\ DOMAIN futures[k].res
                       = {"search_term", "artist_name", "artist_id", "followers_count", "_error"}
                  /\ futures[k].res["search_term"] = Some(terms[k])
                  /\ NullFields(futures[k].res)
                  /\ futures[k].res["_error"] # None
             ELSE futures[k].res = GoodRow(terms[k].s)
    /\ mp_pc = "done" =>
          /\ mp_result.kind = "DataFrame"
          /\ Len(mp_result.rows) = Len(terms)
          /\ \A k \in DOMAIN futures :
                RanToEnd(k) =>
                   Count(mp_result.rows, futures[k].res)
                     = Cardinality({j \in DOMAIN futures : RanToEnd(j) /\ futures[j].res = futures[k].res})

C2_Witness ==
    /\ mp_pc = "done"
    /\ Len(terms) = 2
    /\ \E k1, k2 \in DOMAIN futures :
          /\ RanToEnd(k1) /\ RanToEnd(k2)
          /\ ResolutionFailed(terms[k1].s)
          /\ ~ResolutionFailed(terms[k2].s)
          /\ futures[k2].res["artist_id"] # None
          /\ k1 < k2
          /\ mp_result.rows[1] = futures[k2].res

\* The rows of get_artists_mp are those of get_artists, but for the rows replaced
\* by an error-tagged row
SameRowsButErrors ==
    /\ mp_result.kind = "DataFrame"
    /\ Len(mp_result.rows) = Len(result.rows)
    /\ SubBag(NotErrorTagged(mp_result.rows), result.rows)

BothDone == pc = "done" /\ mp_pc = "done" /\ result.kind = "DataFrame"

\* C4, as stated: for the same non-empty (here: not even blank) terms and the same API responses, the
\* rows of get_artists_mp are, ignoring order, the rows of get_artists, except
\* for the error-tagged rows of the failed terms.
C4_AsStated ==
    (BothDone /\ \A k \in DOMAIN Items : IsStr(Items[k]) /\ ~BlankString(Items[k]))
    => SameRowsButErrors

\* C4, amended: the same, for terms that are non-empty strings without leading or
\* trailing whitespace.
C4_SameRows ==
    (BothDone /\ \A k \in DOMAIN Items : IsStr(Items[k]) /\ Strip(Items[k].s) = Items[k].s)
    => SameRowsButErrors

C4_Witness ==
    /\ BothDone
    /\ Len(result.rows) = 2
    /\ result.rows[1] # result.rows[2]
    /\ mp_result.rows = <<result.rows[2], result.rows[1]>>

\* ---------------------------------------------------- collect_artist_names
\* Code points of the characters of the model
Ord(c) ==
    CASE c = " " -> 32
      [] c = "a" -> 97
      [] c = "b" -> 98
      [] OTHER -> 122

\* str.__lt__: lexicographic by code point
RECURSIVE StrLess(_, _)
StrLess(a, b) ==
    IF a = <<>> THEN b # <<>>
    ELSE IF b = <<>> THEN FALSE
    ELSE IF Head(a) = Head(b) THEN StrLess(Tail(a), Tail(b))
    ELSE Ord(Head(a)) < Ord(Head(b))

RECURSIVE Insert(_, _)
Insert(x, sorted) ==
    IF sorted = <<>> THEN <<x>>
    ELSE IF StrLess(x, Head(sorted)) THEN <<x>> \o sorted
    ELSE <<Head(sorted)>> \o Insert(x, Tail(sorted))

\* Mutant: line 165 returns the keys in insertion order.
Unsorted(keys) == keys

\* sorted(), line 165
RECURSIVE Sorted(_)
Sorted(keys) ==
    IF keys = <<>> THEN <<>>
    ELSE Insert(keys[Len(keys)], Sorted(SubSeq(keys, 1, Len(keys) - 1)))

\* The hits a page may hold, each reduced to its result.primary_artist dict
RawHits ==
    { ("id" :> 7),
      Primary(7, <<" ">>),
      Primary(7, <<"b">>),
      Primary(7, <<" ", "b">>),
      Primary(7, <<"a", "b">>) }

PageResponses ==
    {Response(500, <<>>)} \cup {Response(200, h) : h \in SeqsUpTo(RawHits, MaxHits)}

\* lines 150-153: one hit
AddName(keys, h) ==
    LET found == DictGet(h, "name")
        name == Strip(IF found = None THEN <<>> ELSE found[1])
    IN  IF name # <<>> /\ \A j \in DOMAIN keys : keys[j] # name
        THEN Append(keys, name)
        ELSE keys

\* lines 149-153: the hits of a page
RECURSIVE AddNames(_, _)
AddNames(keys, hits) ==
    IF hits = <<>> THEN keys
    ELSE AddNames(AddName(keys, Head(hits)), Tail(hits))

\* line 137
Alphabet ==
    << <<"a">>, <<"b">>, <<"c">>, <<"d">>, <<"e">>, <<"f">>, <<"g">>, <<"h">>, <<"i">>,
       <<"j">>, <<"k">>, <<"l">>, <<"m">>, <<"n">>, <<"o">>, <<"p">>, <<"q">>, <<"r">>,
       <<"s">>, <<"t">>, <<"u">>, <<"v">>, <<"w">>, <<"x">>, <<"y">>, <<"z">> >>

\* The seeds a caller passes: the first n letters
SeedLists == {SubSeq(Alphabet, 1, n) : n \in 0..MaxSeeds}

\* save_list, lines 193-196
SaveList(items) == [k \in DOMAIN items |-> items[k] \o <<"\n">>]

\* get_artists and get_artists_mp are not called
ResIdle ==
    /\ search_terms = [type |-> "list", items |-> <<>>]
    /\ workers = Workers
    /\ search_api = <<>>
    /\ artist_api = <<>>
    /\ pc = "idle"
    /\ i = 0
    /\ artist_id = None
    /\ artist = EmptyDict
    /\ rows = <<>>
    /\ requests = <<>>
    /\ result = Pending
    /\ mp_pc = "idle"
    /\ terms = <<>>
    /\ futures = <<>>
    /\ mp_rows = <<>>
    /\ mp_result = Pending

InitCollect ==
    /\ ResIdle
    /\ seeds_arg \in {None} \cup {Some(q) : q \in SeedLists}
    /\ target \in 0..MaxTarget
    /\ max_pages \in 0..MaxPages
    /\ out_txt \in {None, Some(<<"f">>)}
    \* the default alphabet is run with one page per seed and a target of one name
    /\ seeds_arg = None => target = 1 /\ max_pages = 1 /\ out_txt = None
    /\ c_pc = "enter"
    /\ seeds = <<>>
    /\ seed_i = 0
    /\ page = 0
    /\ names = <<>>
    /\ out = <<>>
    /\ c_result = [kind |-> "pending", list |-> <<>>]
    /\ file = None
    /\ n_requests = 0
    /\ seed_requests = 0
    /\ last_request = None
    /\ observed = None
    /\ seen = {}

args == <<seeds_arg, target, max_pages, out_txt>>

\* lines 136-139
CollectEnter ==
    /\ c_pc = "enter"
    /\ seeds' = IF seeds_arg = None THEN Alphabet ELSE seeds_arg[1]
    /\ names' = <<>>
    /\ seed_i' = 0
    /\ c_pc' = "for_seed"
    /\ UNCHANGED <<res_vars, args, page, out, c_result, file, n_requests, seed_requests,
                   last_request, observed, seen>>

\* line 141
ForSeed ==
    /\ c_pc = "for_seed"
    /\ IF seed_i < Len(seeds)
       THEN /\ seed_i' = seed_i + 1
            /\ page' = 0
            /\ seed_requests' = 0
            /\ c_pc' = "for_page"
       ELSE /\ c_pc' = "sorted"
            /\ UNCHANGED <<seed_i, page, seed_requests>>
    /\ UNCHANGED <<res_vars, args, seeds, names, out, c_result, file, n_requests,
                   last_request, observed, seen>>

\* Mutant: range(1, max_pages + 2)
ForPageOneMore ==
    /\ c_pc = "for_page"
    /\ IF page < max_pages + 1
       THEN /\ page' = page + 1
            /\ c_pc' = "get"
       ELSE /\ c_pc' = "check"
            /\ UNCHANGED page
    /\ UNCHANGED <<res_vars, args, seeds, seed_i, names, out, c_result, file, n_requests,
                   seed_requests, last_request, observed, seen>>

\* line 142
ForPage ==
    /\ c_pc = "for_page"
    /\ IF page < max_pages
       THEN /\ page' = page + 1
            /\ c_pc' = "get"
       ELSE /\ c_pc' = "check"
            /\ UNCHANGED page
    /\ UNCHANGED <<res_vars, args, seeds, seed_i, names, out, c_result, file, n_requests,
                   seed_requests, last_request, observed, seen>>

\* line 144: the request is issued and ends in `how`
Requested(how) ==
    /\ n_requests' = n_requests + 1
    /\ seed_requests' = seed_requests + 1
    /\ last_request' = Some([seed |-> seed_i, page |-> page, how |-> how])

\* Mutant: the handler of line 158 leaves the page loop.
PageRaisesBreak ==
    /\ c_pc = "get"
    /\ \E r \in PageResponses :
          /\ GetRaises(r)
          /\ Requested("raised")
    /\ c_pc' = "check"
    /\ UNCHANGED <<res_vars, args, seeds, seed_i, page, names, out, c_result, file, observed, seen>>

\* lines 144, 158-160: _get raises, the page is skipped
PageRaises ==
    /\ c_pc = "get"
    /\ \E r \in PageResponses :
          /\ GetRaises(r)
          /\ Requested("raised")
    /\ c_pc' = "for_page"
    /\ UNCHANGED <<res_vars, args, seeds, seed_i, page, names, out, c_result, file, observed, seen>>

\* lines 144-147: no hits, break
PageEmpty ==
    /\ c_pc = "get"
    /\ \E r \in PageResponses :
          /\ ~GetRaises(r)
          /\ r.body = <<>>
          /\ Requested("empty")
    /\ c_pc' = "check"
    /\ UNCHANGED <<res_vars, args, seeds, seed_i, page, names, out, c_result, file, observed, seen>>

\* lines 144-156: the names of the hits are collected
PageHits ==
    /\ c_pc = "get"
    /\ \E r \in PageResponses :
          /\ ~GetRaises(r)
          /\ r.body # <<>>
          /\ Requested("hits")
          /\ names' = AddNames(names, r.body)
          /\ seen' = seen \cup {DictGet(r.body[j], "name") : j \in DOMAIN r.body}
    /\ c_pc' = "for_page"
    /\ UNCHANGED <<res_vars, args, seeds, seed_i, page, out, c_result, file, observed>>

\* Mutant: line 162 tests len(names) > target
CheckGreater ==
    /\ c_pc = "check"
    /\ observed' = Some([seed |-> seed_i, count |-> Len(names)])
    /\ c_pc' = IF Len(names) > target THEN "sorted" ELSE "for_seed"
    /\ UNCHANGED <<res_vars, args, seeds, seed_i, page, names, out, c_result, file, n_requests,
                   seed_requests, last_request, seen>>

\* lines 162-163
Check ==
    /\ c_pc = "check"
    /\ observed' = Some([seed |-> seed_i, count |-> Len(names)])
    /\ c_pc' = IF Len(names) >= target THEN "sorted" ELSE "for_seed"
    /\ UNCHANGED <<res_vars, args, seeds, seed_i, page, names, out, c_result, file, n_requests,
                   seed_requests, last_request, seen>>

\* lines 165-168
CollectReturn ==
    /\ c_pc = "sorted"
    /\ out' = Sorted(names)
    /\ file' = IF out_txt # None THEN Some(SaveList(out')) ELSE file
    /\ c_result' = [kind |-> "list", list |-> out']
    /\ c_pc' = "done"
    /\ UNCHANGED <<res_vars, args, seeds, seed_i, page, names, n_requests, seed_requests,
                   last_request, observed, seen>>

NextCollect ==
    \/ CollectEnter
    \/ ForSeed
    \/ ForPage
    \/ PageRaises
    \/ PageEmpty
    \/ PageHits
    \/ Check
    \/ CollectReturn

SpecCollect == InitCollect /\ [][NextCollect]_vars

\* The interpreter keeps running the call until it returns.
SpecCollectFair == SpecCollect /\ WF_vars(NextCollect)

\* --------------------------------------------- claims on the name collector
\* This step issues a search request (for seed seed_i, page page)
Requests == n_requests' # n_requests

Distinct(seq) == Cardinality(Range(seq))

\* C5: once the count of distinct names, read at the end of a seed's pagination,
\* has reached the target, no request is issued for a later seed: every request
\* for seed k > 1 is issued after the count read at the end of seed k-1 was
\* below the target.
C5_StopsAtTarget ==
    /\ [][(observed # None /\ observed[1].count >= target) => ~Requests]_vars
    /\ [][(Requests /\ seed_i > 1) =>
            /\ observed # None
            /\ observed[1].seed = seed_i - 1
            /\ observed[1].count < target
            /\ page = 1 => Distinct(names) < target]_vars
    /\ [](observed # None /\ c_pc \in {"for_seed", "sorted", "done"} =>
             observed[1].count = Distinct(names))

C5_Witness ==
    /\ c_pc = "done"
    /\ target = 2
    /\ observed # None
    /\ observed[1].seed = 1
    /\ observed[1].count >= target
    /\ Len(seeds) = 2
    /\ n_requests = 2

\* The names the fetched pages held, stripped, the empty ones left out
NamesSeen == {Strip(n[1]) : n \in seen \ {None}} \ {<<>>}

\* C6: the list collect_artist_names returns has no duplicate, is in ascending
\* lexicographic order, and holds exactly the non-empty stripped primary-artist
\* names of the hits of the pages that were fetched.
C6_SortedDistinctExact ==
    c_pc = "done" =>
        /\ c_result.kind = "list"
        /\ \A j, k \in DOMAIN c_result.list :
              j < k => /\ c_result.list[j] # c_result.list[k]
                       /\ StrLess(c_result.list[j], c_result.list[k])
        /\ Range(c_result.list) = NamesSeen

C6_Witness ==
    /\ c_pc = "done"
    /\ c_result.list = << <<"a", "b">>, <<"b">> >>
    /\ names = << <<"b">>, <<"a", "b">> >>
    /\ seen = {None, Some(<<" ">>), Some(<<" ", "b">>), Some(<<"b">>), Some(<<"a", "b">>)}
    /\ n_requests = 4
    /\ last_request[1].how = "raised"

Last == last_request[1]

\* C9: within a seed pages are requested in increasing order from 1; a page
\* without hits ends the seed's pagination; a page whose fetch raises is
\* skipped and the next page of the seed is still requested, so that a seed's
\* pagination ends only at a page without hits or at the last page, and the
\* exception never reaches the caller.
C9_Pagination ==
    /\ [][Requests =>
            IF last_request # None /\ Last.seed = seed_i
            THEN page = Last.page + 1 /\ Last.how # "empty"
            ELSE /\ page = 1
                 /\ last_request # None =>
                       /\ Last.seed = seed_i - 1
                       /\ Last.how = "empty" \/ Last.page = max_pages]_vars
    /\ []((c_pc = "done" /\ last_request # None) =>
             /\ Last.how = "empty" \/ Last.page = max_pages
             /\ c_result.kind = "list")
    /\ []((c_pc = "for_page" /\ last_request # None /\ Last.seed = seed_i) =>
             Last.how # "empty")

C9_Witness ==
    /\ c_pc = "get"
    /\ last_request # None
    /\ Last.how = "raised"
    /\ Last.seed = seed_i
    /\ Last.page = 1
    /\ page = 2

\* C10: collect_artist_names terminates for a finite seed list whatever the API
\* answers: at most max_pages requests per seed, at most len(seeds) * max_pages
\* in all, and then a list is returned.
C10_Terminates ==
    /\ [](seed_requests <= max_pages /\ n_requests <= Len(seeds) * max_pages)
    /\ <>(c_pc = "done" /\ c_result.kind = "list")

C10_Witness ==
    /\ c_pc = "done"
    /\ c_result.kind = "list"
    /\ n_requests = Len(seeds) * max_pages
    /\ n_requests >= 4
    /\ Last.how = "raised"
====
